---- MODULE Spec2Model ----
(***************************************************************************)
(* ASDF documents embedded in a FITS container (pyasdf/fits_embed.py).     *)
(*                                                                         *)
(* The host container is an HDUList: a list of sections (HDUs), each with  *)
(* a name, a version and a data array.  _EmbeddedBlockManager resolves     *)
(* "fits:NAME,VER" sources into the host's sections, AsdfInFits stages the *)
(* serialized document in a buffer and stores it in the section "ASDF".    *)
(*                                                                         *)
(* Text is modelled as sequences of one-character strings, so that the     *)
(* formatting of get_source and the regular expression of get_block are    *)
(* computed character by character.  Python objects carry an integer id:   *)
(* `a is b` is equality of ids.                                            *)
(***************************************************************************)
EXTENDS Integers, Sequences, FiniteSets, TLC

\* ------------------------------------------------------------------ bounds
\* Sections in the host container handed to the constructor.
MaxSections == 2
\* Arrays in the tree of the document that is written.
MaxArrays == 1
\* The larger of the two section versions tried (two digits).
MaxVer == 12
\* Arrays whose buffer is owned by the document, not by the host.
NumPrivate == 1
\* Integer sources 0..MaxIndex are tried.
MaxIndex == 2
\* Internal blocks in the document's manager.
MaxBlocks == 2

\* -------------------------------------------------------------------- text
Upper == {"A","B","C","D","E","F","G","H","I","J","K","L","M",
          "N","O","P","Q","R","S","T","U","V","W","X","Y","Z"}
DigitSeq == <<"0","1","2","3","4","5","6","7","8","9">>
Digit == {DigitSeq[i] : i \in 1..10}

FitsPrefix == <<"f","i","t","s",":">>
SCI == <<"S","C","I">>
SCI_A == <<"S","C","I","_","A">>
DQ == <<"D","Q">>
ASDF_EXTENSION_NAME == <<"A","S","D","F">>

\* '{0}'.format(n) of a non-negative integer.
RECURSIVE FormatInt(_)
FormatInt(n) ==
    IF n < 10 THEN <<DigitSeq[n + 1]>>
    ELSE FormatInt(n \div 10) \o <<DigitSeq[(n % 10) + 1]>>

DigitVal(c) == (CHOOSE i \in 1..10 : DigitSeq[i] = c) - 1

\* int(s) of a non-empty string of digits.
RECURSIVE ParseInt(_)
ParseInt(s) ==
    IF Len(s) = 1 THEN DigitVal(s[1])
    ELSE 10 * ParseInt(SubSeq(s, 1, Len(s) - 1)) + DigitVal(s[Len(s)])

StartsWith(s, p) == Len(s) >= Len(p) /\ SubSeq(s, 1, Len(p)) = p

\* The longest prefix of s made of characters of class: a greedy [class]*.
RECURSIVE TakeWhile(_, _)
TakeWhile(s, class) ==
    IF s = <<>> \/ Head(s) \notin class THEN <<>>
    ELSE <<Head(s)>> \o TakeWhile(Tail(s), class)

\* re.match('(?P<name>[A-Z0-9]+)(,(?P<ver>[0-9]+))?', s): a match at the
\* start of s, which need not reach its end.  ver = <<>> is group('ver')
\* being None; consumed is the length of the matched text.
ReMatch(s) ==
    LET name == TakeWhile(s, Upper \cup Digit)
        rest == SubSeq(s, Len(name) + 1, Len(s))
        ver  == IF rest # <<>> /\ Head(rest) = ","
                THEN TakeWhile(Tail(rest), Digit) ELSE <<>>
    IN  [matched  |-> name # <<>>,
         name     |-> name,
         ver      |-> ver,
         consumed |-> Len(name) + (IF ver # <<>> THEN 1 + Len(ver) ELSE 0)]

\* ----------------------------------------------------------------- sources
\* A source is a non-negative integer or a string.
IntSource(n) == [kind |-> "int", idx |-> n, str |-> <<>>]
StrSource(s) == [kind |-> "str", idx |-> 0, str |-> s]
NoSource == [kind |-> "none", idx |-> 0, str |-> <<>>]

\* 'fits:{0},{1}'.format(hdu.name, hdu.ver)
FitsSource(name, ver) == StrSource(FitsPrefix \o name \o <<",">> \o FormatInt(ver))

\* ------------------------------------------------------------------ blocks
NoBlock == [kind |-> "none", id |-> 0, hdu |-> 0, name |-> <<>>, ver |-> 0, base |-> 0]
\* _FitsBlock(hdu): a new object wrapping the HDU object, whose name and
\* version it can read (as __repr__ does).
FitsBlock(id, hdu) ==
    [kind |-> "fits", id |-> id, hdu |-> hdu.id, name |-> hdu.name, ver |-> hdu.ver,
     base |-> 0]
\* block.Block(base): an internal block over a buffer.  The manager holds
\* one internal block for each buffer, so the buffer identifies the block.
InternalBlock(base) ==
    [kind |-> "internal", id |-> 0, hdu |-> 0, name |-> <<>>, ver |-> 0, base |-> base]

Ok(b) == [ok |-> TRUE, err |-> "", block |-> b, source |-> NoSource]
OkSource(s) == [ok |-> TRUE, err |-> "", block |-> NoBlock, source |-> s]
Fail(e) == [ok |-> FALSE, err |-> e, block |-> NoBlock, source |-> NoSource]

\* ---------------------------------------------------------- host container
NoVer == -1

\* The positions of hdulist whose name is name and, when a version is
\* given, whose version is ver.
Matches(hdulist, name, ver) ==
    {i \in 1..Len(hdulist) :
        hdulist[i].name = name /\ (ver = NoVer \/ hdulist[i].ver = ver)}

Min(S) == CHOOSE x \in S : \A y \in S : x <= y

\* hdulist[name] and hdulist[name, ver]: the first section that matches;
\* 0 stands for the KeyError raised when none does.
IndexOf(hdulist, name, ver) ==
    LET m == Matches(hdulist, name, ver)
    IN  IF m = {} THEN 0 ELSE Min(m)

\* ----------------------------------------------------------------- arrays
\* An array of the tree: whether it is an NDArrayType (an array read from
\* an ASDF file) and the identity of the buffer it is a view of, which is
\* what util.get_array_base returns.
Array(nd, base) == [ndarraytype |-> nd, base |-> base]
NoArray == [ndarraytype |-> FALSE, base |-> 0]

\* The buffers owned by the document: negative ids, host data has positive.
PrivateBuffers == {-k : k \in 1..NumPrivate}

\* --------------------------------------------------- block.BlockManager
\* The base manager keeps the ordered list of internal blocks (reg).

\* BlockManager.get_block: an integer indexes the internal blocks.
BlockManager_get_block(reg, source) ==
    IF source.kind = "int" /\ source.idx >= 0 /\ source.idx < Len(reg)
    THEN Ok(reg[source.idx + 1])
    ELSE Fail("AddressError")

\* BlockManager.get_source: the position of the block in the list.
BlockManager_get_source(reg, block) ==
    LET at == {i \in 1..Len(reg) : reg[i] = block}
    IN  IF at = {} THEN Fail("AddressError")
        ELSE OkSource(IntSource(Min(at) - 1))

\* BlockManager.find_or_create_block_for_array: the block already bound to
\* the array's buffer, or a new internal block appended to the list.
BlockManager_find_or_create_block_for_array(reg, arr) ==
    LET at == {i \in 1..Len(reg) : reg[i].base = arr.base}
    IN  IF at # {} THEN [block |-> reg[Min(at)], reg |-> reg]
        ELSE [block |-> InternalBlock(arr.base),
              reg   |-> Append(reg, InternalBlock(arr.base))]

\* ------------------------------------------------- _EmbeddedBlockManager
\* hl is self._hdulist, reg the internal blocks of the base manager, newId
\* the id of the object the call creates.

get_block(hl, reg, source, newId) ==
    IF source.kind = "str" /\ StartsWith(source.str, FitsPrefix)
    THEN LET parts == ReMatch(SubSeq(source.str, Len(FitsPrefix) + 1, Len(source.str)))
             ver   == IF parts.ver # <<>> THEN ParseInt(parts.ver) ELSE NoVer
             i     == IndexOf(hl, parts.name, ver)
         IN  IF parts.matched
             THEN IF i = 0 THEN Fail("KeyError")
                  ELSE Ok(FitsBlock(newId, hl[i]))
             ELSE BlockManager_get_block(reg, source)
    ELSE BlockManager_get_block(reg, source)

\* A get_source that trusts the block: the identifier is formatted from
\* the wrapped HDU without scanning the host container for it.
get_source_unscanned(hl, reg, block) ==
    IF block.kind = "fits"
    THEN OkSource(FitsSource(block.name, block.ver))
    ELSE BlockManager_get_source(reg, block)

get_source(hl, reg, block) ==
    IF block.kind = "fits"
    THEN LET at == {i \in 1..Len(hl) : hl[i].id = block.hdu}
         IN  IF at # {}
             THEN OkSource(FitsSource(hl[Min(at)].name, hl[Min(at)].ver))
             ELSE Fail("ValueError: FITS block seems to have been removed")
    ELSE BlockManager_get_source(reg, block)

\* _EmbeddedBlockManager.find_or_create_block_for_array: an array that is
\* not an NDArrayType and whose base is the data of a section gets a new
\* _FitsBlock over the first such section; every other array goes to the
\* base manager.
find_or_create_block_for_array(hl, reg, arr, newId) ==
    LET at == {i \in 1..Len(hl) : hl[i].data.id = arr.base}
    IN  IF ~arr.ndarraytype /\ at # {}
        THEN [block |-> FitsBlock(newId, hl[Min(at)]), reg |-> reg]
        ELSE BlockManager_find_or_create_block_for_array(reg, arr)

\* -------------------------------------------------------- asdf.AsdfFile
\* The serialized document: the source of each array of the tree, in tree
\* order, and the number of internal blocks that follow the tree.  valid
\* is FALSE for bytes that are not an ASDF stream.
Payload(sources, n) == [valid |-> TRUE, tree |-> sources, nblocks |-> n]
NotAsdf == [valid |-> FALSE, tree |-> <<>>, nblocks |-> 0]
EmptyDocument == Payload(<<>>, 0)

\* all_array_compression: "zlib" names a codec, "bogus" names none.
Compressions == {"zlib", "bogus"}

\* The traversal of AsdfFile.write_to: every array of the tree is bound to
\* a block by find_or_create_block_for_array and named by get_source.
\* bound[k] is the id of the host section array k was bound to, 0 for an
\* internal block.  The first failing get_source ends the traversal.
\* ids holds the id of the object created for each array.
RECURSIVE WriteTree(_, _, _, _)
WriteTree(hl, reg, arrays, ids) ==
    IF arrays = <<>>
    THEN [ok |-> TRUE, err |-> "", reg |-> reg, sources |-> <<>>, bound |-> <<>>]
    ELSE LET f    == find_or_create_block_for_array(hl, reg, Head(arrays), Head(ids))
             s    == get_source(hl, f.reg, f.block)
             rest == WriteTree(hl, f.reg, Tail(arrays), Tail(ids))
         IN  IF ~s.ok
             THEN [ok |-> FALSE, err |-> s.err, reg |-> f.reg,
                   sources |-> <<>>, bound |-> <<>>]
             ELSE [rest EXCEPT !.sources = <<s.source>> \o rest.sources,
                               !.bound = <<f.block.hdu>> \o rest.bound]

\* AsdfFile.write_to(buff, ...): the tree, then the internal blocks, each
\* through the codec.
AsdfFile_write_to(hl, reg, arrays, compression, ids) ==
    LET w == WriteTree(hl, reg, arrays, ids)
    IN  IF ~w.ok THEN [w EXCEPT !.sources = <<>>] @@ [payload |-> NotAsdf]
        ELSE IF compression = "bogus" /\ w.reg # <<>>
        THEN [w EXCEPT !.ok = FALSE, !.err = "CodecError"] @@ [payload |-> NotAsdf]
        ELSE w @@ [payload |-> Payload(w.sources, Len(w.reg))]

\* The internal blocks a reader finds in a payload: block i over buffer i
\* of the stream.
ReadBlocks(payload) ==
    [i \in 1..payload.nblocks |-> InternalBlock(i)]

\* ------------------------------------------------------------------- state
VARIABLES
    hdulist,   \* the host container: the list of its sections
    blocks,    \* the internal blocks of the document's manager
    disk,      \* the file written by write_to
    last       \* the last call: its arguments and its result

vars == <<hdulist, blocks, disk, last>>

Versions == {1, MaxVer}

\* The sections a host container is built from.
SectionKinds ==
    {[name |-> SCI, ver |-> v] : v \in Versions}
        \cup {[name |-> SCI_A, ver |-> 1], [name |-> ASDF_EXTENSION_NAME, ver |-> 1]}

\* The data array of a section: its identity and its bytes.  Id 0 is a new
\* array, which no array of a tree is a view of.
DataOf(id, name) ==
    [id |-> id, bytes |-> IF name = ASDF_EXTENSION_NAME THEN EmptyDocument ELSE NotAsdf]

\* Section i of a host container handed to the constructor: object i, with
\* data array i.
Hosts ==
    UNION {{[i \in 1..n |-> [id |-> i, name |-> k[i].name, ver |-> k[i].ver,
                             data |-> DataOf(i, k[i].name)]] :
               k \in [1..n -> SectionKinds]} : n \in 0..MaxSections}

\* op: the call; src, arr, tree, blk: its argument; ok, err: whether it
\* returned; block, source, payload, bound, resolved: what it returned.
\* After read, written and bound are the payload and the bindings of the
\* write that came right before it, if one did (fresh).
NoCall ==
    [op |-> "none", ok |-> TRUE, err |-> "", src |-> NoSource, arr |-> NoArray,
     tree |-> <<>>, blk |-> NoBlock, block |-> NoBlock, source |-> NoSource,
     payload |-> NotAsdf, bound |-> <<>>, resolved |-> <<>>,
     fresh |-> FALSE, written |-> NotAsdf]

NoFile == [exists |-> FALSE, sections |-> 0]

\* AsdfInFits(hdulist): an empty block manager over the caller's HDUList.
Init ==
    /\ hdulist \in Hosts
    /\ blocks = <<>>
    /\ disk = NoFile
    /\ last = NoCall

Range(f) == {f[i] : i \in DOMAIN f}

\* The smallest k positive ids not in used.
FreshIds(used, k) ==
    LET free == (1..(Cardinality(used) + k)) \ used
    IN  [n \in 1..k |-> CHOOSE x \in free : Cardinality({y \in free : y < x}) = n - 1]

\* The id of a new _FitsBlock: not the id of a block the caller holds.
NewBlockIds(k) == FreshIds({last.block.id, last.blk.id}, k)
\* The id of a new HDU: not the id of an HDU of the host container or of
\* one a block the caller holds still wraps.
NewHduId ==
    FreshIds({h.id : h \in Range(hdulist)} \cup {last.block.hdu, last.blk.hdu}, 1)[1]

\* ------------------------------------------------------------------ inputs
InputSources ==
    {IntSource(n) : n \in 0..MaxIndex}
        \cup {FitsSource(k.name, k.ver) : k \in SectionKinds}
        \cup {FitsSource(DQ, 1),
              StrSource(FitsPrefix \o SCI),
              StrSource(FitsPrefix \o SCI \o <<",", "x">>),
              StrSource(FitsPrefix \o SCI \o <<",", "1", "x">>),
              StrSource(FitsPrefix),
              StrSource(<<"h", "t", "t", "p", ":">> \o SCI)}

\* Arrays over a private buffer or over the data of a host section; the
\* NDArrayType ones over the data of a host section, as read leaves them.
InputArrays ==
    {Array(FALSE, base) : base \in PrivateBuffers}
        \cup {Array(nd, h.data.id) : nd \in BOOLEAN,
                                      h \in {x \in Range(hdulist) : x.data.id # 0}}

\* The trees the caller assigns to the document before it writes it.
InputTrees == UNION {[1..n -> InputArrays] : n \in 0..MaxArrays}

\* The blocks the caller can pass: those it was handed by the last calls
\* and the internal blocks of the manager.
LiveBlocks == ({last.block, last.blk} \cup Range(blocks)) \ {NoBlock}

\* ----------------------------------------------------------------- actions
\* The caller deletes section i of the host container it shares with the
\* document (self._hdulist is the caller's HDUList); it keeps the blocks
\* it holds.
RemoveSection(i) ==
    /\ i \in 1..Len(hdulist)
    /\ hdulist' = SubSeq(hdulist, 1, i - 1) \o SubSeq(hdulist, i + 1, Len(hdulist))
    /\ last' = [NoCall EXCEPT !.op = "del", !.block = last.block, !.blk = last.blk]
    /\ UNCHANGED <<blocks, disk>>

GetBlock(source) ==
    \E r \in {get_block(hdulist, blocks, source, NewBlockIds(1)[1])} :
        /\ last' = [NoCall EXCEPT !.op = "get_block", !.src = source, !.ok = r.ok,
                                  !.err = r.err, !.block = r.block]
        /\ UNCHANGED <<hdulist, blocks, disk>>

GetSource(block) ==
    \E r \in {get_source(hdulist, blocks, block)} :
        /\ last' = [NoCall EXCEPT !.op = "get_source", !.blk = block, !.ok = r.ok,
                                  !.err = r.err, !.source = r.source]
        /\ UNCHANGED <<hdulist, blocks, disk>>

FindOrCreateBlockForArray(arr) ==
    \E f \in {find_or_create_block_for_array(hdulist, blocks, arr, NewBlockIds(1)[1])} :
        /\ Len(f.reg) <= MaxBlocks
        /\ blocks' = f.reg
        /\ last' = [NoCall EXCEPT !.op = "find_or_create_block_for_array",
                                  !.arr = arr, !.block = f.block]
        /\ UNCHANGED <<hdulist, disk>>

\* An _update_asdf_extension that writes into the host section directly,
\* without the intermediate buffer: a failing write leaves the section
\* with the bytes written so far.
update_asdf_extension_unstaged(hl, reg, arrays, compression, ids, hduId) ==
    LET w     == AsdfFile_write_to(hl, reg, arrays, compression, ids)
        array == [id |-> 0, bytes |-> w.payload]
        i     == IndexOf(hl, ASDF_EXTENSION_NAME, NoVer)
    IN  [ok |-> w.ok, err |-> w.err, blocks |-> w.reg,
         payload |-> w.payload, bound |-> w.bound,
         hdulist |-> IF i = 0
                     THEN Append(hl, [id |-> hduId, name |-> ASDF_EXTENSION_NAME,
                                      ver |-> 1, data |-> array])
                     ELSE [hl EXCEPT ![i].data = array]]

\* An _update_asdf_extension that never looks the section up: it appends
\* a new ImageHDU on every call.
update_asdf_extension_append(hl, reg, arrays, compression, ids, hduId) ==
    LET w     == AsdfFile_write_to(hl, reg, arrays, compression, ids)
        array == [id |-> 0, bytes |-> w.payload]
    IN  IF ~w.ok
        THEN [ok |-> FALSE, err |-> w.err, hdulist |-> hl, blocks |-> w.reg,
              payload |-> NotAsdf, bound |-> <<>>]
        ELSE [ok |-> TRUE, err |-> "", blocks |-> w.reg,
              payload |-> w.payload, bound |-> w.bound,
              hdulist |-> Append(hl, [id |-> hduId, name |-> ASDF_EXTENSION_NAME,
                                      ver |-> 1, data |-> array])]

\* AsdfInFits._update_asdf_extension: the document is written to a buffer;
\* then the section named ASDF gets the buffer as its data, or a new
\* ImageHDU named ASDF (version 1) is appended when the lookup raises.
\* ids: the id of the block created for each array of the tree; hduId: the
\* id of the new HDU.
update_asdf_extension(hl, reg, arrays, compression, ids, hduId) ==
    LET w     == AsdfFile_write_to(hl, reg, arrays, compression, ids)
        array == [id |-> 0, bytes |-> w.payload]
        i     == IndexOf(hl, ASDF_EXTENSION_NAME, NoVer)
    IN  IF ~w.ok
        THEN [ok |-> FALSE, err |-> w.err, hdulist |-> hl, blocks |-> w.reg,
              payload |-> NotAsdf, bound |-> <<>>]
        ELSE [ok |-> TRUE, err |-> "", blocks |-> w.reg,
              payload |-> w.payload, bound |-> w.bound,
              hdulist |-> IF i = 0
                          THEN Append(hl, [id |-> hduId,
                                           name |-> ASDF_EXTENSION_NAME, ver |-> 1,
                                           data |-> array])
                          ELSE [hl EXCEPT ![i].data = array]]

\* What HDUList.writeto stores in the file: the sections of the host, of
\* which the model keeps the number.
Snapshot(hl) == [exists |-> TRUE, sections |-> Len(hl)]

\* AsdfInFits.update, on the tree the caller has assigned to the document.
Update(arrays, compression) ==
    \E u \in {update_asdf_extension(hdulist, blocks, arrays, compression,
                                   NewBlockIds(Len(arrays)), NewHduId)} :
        /\ Len(u.blocks) <= MaxBlocks
        /\ Len(u.hdulist) <= MaxSections + 1
        /\ hdulist' = u.hdulist
        /\ blocks' = u.blocks
        /\ last' = [NoCall EXCEPT !.op = "update", !.ok = u.ok, !.err = u.err,
                                  !.tree = IF u.ok THEN arrays ELSE <<>>,
                                  !.payload = u.payload, !.bound = u.bound]
        /\ UNCHANGED disk

\* AsdfInFits.write_to: _update_asdf_extension, then HDUList.writeto, which
\* refuses to overwrite an existing file.
WriteTo(arrays, compression) ==
    \E u \in {update_asdf_extension(hdulist, blocks, arrays, compression,
                                   NewBlockIds(Len(arrays)), NewHduId)} :
        /\ Len(u.blocks) <= MaxBlocks
        /\ Len(u.hdulist) <= MaxSections + 1
        /\ hdulist' = u.hdulist
        /\ blocks' = u.blocks
        /\ disk' = IF u.ok /\ ~disk.exists THEN Snapshot(u.hdulist) ELSE disk
        /\ last' = [NoCall EXCEPT !.op = "write_to",
                                  !.ok = u.ok /\ ~disk.exists,
                                  !.err = IF ~u.ok THEN u.err
                                          ELSE IF disk.exists THEN "IOError" ELSE "",
                                  !.tree = IF u.ok THEN arrays ELSE <<>>,
                                  !.payload = u.payload, !.bound = u.bound]

\* AsdfInFits.read(hdulist): a new document over the same host container.
\* Without a section ASDF the document is empty; otherwise the section's
\* data is decoded and every source of its tree is resolved by the new
\* document's manager.
read(hl, ids) ==
    LET i    == IndexOf(hl, ASDF_EXTENSION_NAME, NoVer)
        buff == hl[i].data.bytes
        reg  == ReadBlocks(buff)
    IN  IF i = 0 THEN [payload |-> EmptyDocument, resolved |-> <<>>]
        ELSE [payload  |-> buff,
              resolved |-> [k \in 1..Len(buff.tree) |->
                              get_block(hl, reg, buff.tree[k], ids[k])]]

\* The last call stored a payload in the host container.
Embedded(call) ==
    /\ call.op \in {"update", "write_to"}
    /\ call.payload.valid

Read ==
    \E r \in {read(hdulist, FreshIds({}, MaxArrays))} :
        /\ last' = [NoCall EXCEPT !.op = "read", !.payload = r.payload,
                                  !.resolved = r.resolved,
                                  !.fresh = Embedded(last),
                                  !.written = IF Embedded(last) THEN last.payload
                                              ELSE NotAsdf,
                                  !.bound = IF Embedded(last) THEN last.bound ELSE <<>>]
        /\ UNCHANGED <<hdulist, blocks, disk>>

\* A write_to_stream that is not overridden: AsdfFile.write_to_stream
\* sends the data to the sink.
write_to_stream_base(hl, reg, file, data) ==
    [ok |-> TRUE, err |-> "", hdulist |-> hl, blocks |-> reg,
     disk |-> [exists |-> TRUE, sections |-> file.sections + 1]]

\* AsdfInFits.write_to_stream: always raises.
write_to_stream(hl, reg, file, data) ==
    [ok |-> FALSE, err |-> "NotImplementedError", hdulist |-> hl, blocks |-> reg,
     disk |-> file]

WriteToStream(data) ==
    \E r \in {write_to_stream(hdulist, blocks, disk, data)} :
        /\ hdulist' = r.hdulist
        /\ blocks' = r.blocks
        /\ disk' = r.disk
        /\ last' = [NoCall EXCEPT !.op = "write_to_stream", !.arr = Array(FALSE, data),
                                  !.ok = r.ok, !.err = r.err]

Next ==
    \/ \E i \in 1..Len(hdulist) : RemoveSection(i)
    \/ \E source \in InputSources : GetBlock(source)
    \/ \E block \in LiveBlocks : GetSource(block)
    \/ \E arr \in InputArrays : FindOrCreateBlockForArray(arr)
    \/ \E t \in InputTrees, c \in Compressions : Update(t, c)
    \/ \E t \in InputTrees, c \in Compressions : WriteTo(t, c)
    \/ Read
    \/ \E data \in PrivateBuffers : WriteToStream(data)

Spec == Init /\ [][Next]_vars

\* The block manager alone: sources, blocks and arrays.
NextManager ==
    \/ \E i \in 1..Len(hdulist) : RemoveSection(i)
    \/ \E source \in InputSources : GetBlock(source)
    \/ \E block \in LiveBlocks : GetSource(block)
    \/ \E arr \in InputArrays : FindOrCreateBlockForArray(arr)

SpecManager == Init /\ [][NextManager]_vars

\* Arrays bound to blocks, by the caller and by a write.
NextArrays ==
    \/ \E arr \in InputArrays : FindOrCreateBlockForArray(arr)
    \/ \E t \in InputTrees, c \in Compressions : Update(t, c)

SpecArrays == Init /\ [][NextArrays]_vars

\* Embedding: the document is written into the host and read back.
NextEmbed ==
    \/ \E t \in InputTrees, c \in Compressions : Update(t, c)
    \/ \E t \in InputTrees, c \in Compressions : WriteTo(t, c)
    \/ Read
    \/ \E data \in PrivateBuffers : WriteToStream(data)

SpecEmbed == Init /\ [][NextEmbed]_vars

\* ------------------------------------------------------------ properties
HostIds(hl) == {hl[i].id : i \in 1..Len(hl)}
\* The positions of the sections whose data is the buffer.
SectionsOver(hl, base) == {i \in 1..Len(hl) : hl[i].data.id = base}
\* The positions of the sections named ASDF.
AsdfSections(hl) == {i \in 1..Len(hl) : hl[i].name = ASDF_EXTENSION_NAME}
IsFitsSource(source) == source.kind = "str" /\ StartsWith(source.str, FitsPrefix)

\* C1: for every live block b, get_block(get_source(b)) is b itself, the
\* same object, also when b wraps a section of the host container.
C1_LeftInverse ==
    [][(/\ last.op = "get_source" /\ last.ok
        /\ last'.op = "get_block" /\ last'.src = last.source)
           => (last'.ok /\ last'.block = last.blk)]_vars

\* C2: for every section of the host container, with name N and version V,
\* get_block("fits:N,V") returns a block over that section, and get_source
\* of that block is "fits:N,V" again.
C2_SectionSourceResolves ==
    \A i \in 1..Len(hdulist) :
        (last.op = "get_block" /\ last.src = FitsSource(hdulist[i].name, hdulist[i].ver))
            => /\ last.ok
               /\ last.block.kind = "fits"
               /\ last.block.hdu = hdulist[i].id
               /\ get_source(hdulist, blocks, last.block) = OkSource(last.src)

\* C3: two calls of find_or_create_block_for_array on arrays over the same
\* buffer return the same block object, also when the buffer is the data
\* of a section of the host container.
C3_Dedup ==
    [][(/\ last.op = "find_or_create_block_for_array"
        /\ last'.op = "find_or_create_block_for_array"
        /\ last'.arr.base = last.arr.base)
           => last'.block = last.block]_vars

\* The array of a call is a view of the data of a host section.
OverHostSection(hl, arr) == SectionsOver(hl, arr.base) # {}

\* What C4 says of a call on such an array: the block wraps that section
\* and the internal blocks are as before; and of the write of a tree that
\* holds only such an array: no internal block is made, and the array is
\* written as a fits: reference.
HostArrayNotCopied(arr) ==
    /\ (last'.op = "find_or_create_block_for_array" /\ last'.arr = arr)
          => /\ last'.block.kind = "fits"
             /\ last'.block.hdu \in {hdulist[i].id : i \in SectionsOver(hdulist, arr.base)}
             /\ blocks' = blocks
    /\ (last'.op = "update" /\ last'.ok /\ last'.tree = <<arr>>)
          => /\ blocks' = blocks
             /\ blocks = <<>> => last'.payload.nblocks = 0
             /\ Len(last'.payload.tree) = 1
             /\ IsFitsSource(last'.payload.tree[1])

AllArrays == {Array(nd, base) : nd \in BOOLEAN, base \in PrivateBuffers \cup 1..MaxSections}

\* C4: for every array whose buffer is the data of a host section,
\* find_or_create_block_for_array returns a wrapper of that section and
\* makes no internal block.
C4_HostArrayNotCopied ==
    [][\A arr \in AllArrays : OverHostSection(hdulist, arr) => HostArrayNotCopied(arr)]_vars

\* The part of C4 the code keeps: the same, for the arrays that are not
\* an NDArrayType (line 77 sends an NDArrayType to the base manager).
C4_PlainHostArrayNotCopied ==
    [][\A arr \in AllArrays :
          (OverHostSection(hdulist, arr) /\ ~arr.ndarraytype) => HostArrayNotCopied(arr)]_vars

C4_Witness ==
    /\ last.op = "update" /\ last.ok
    /\ Len(last.tree) = 1 /\ ~last.tree[1].ndarraytype
    /\ OverHostSection(hdulist, last.tree[1])
    /\ IsFitsSource(last.payload.tree[1])
    /\ blocks = <<>>

\* C5: read, right after a write has embedded the document, decodes the
\* payload that write staged, and resolves every array the write bound to
\* a host section to that same section.
C5_RoundTrip ==
    (last.op = "read" /\ last.fresh)
        => /\ last.payload = last.written
           /\ \A k \in DOMAIN last.bound :
                 last.bound[k] # 0
                    => /\ k \in DOMAIN last.resolved
                       /\ last.resolved[k].ok
                       /\ last.resolved[k].block.hdu = last.bound[k]

\* The source does not resolve: an index outside the internal blocks, or a
\* fits: string that is not wholly NAME[,VERSION], or one that names no
\* section of the host container.
Unresolvable(source) ==
    \/ source.kind = "int" /\ source.idx >= Len(blocks)
    \/ /\ IsFitsSource(source)
       /\ LET body  == SubSeq(source.str, Len(FitsPrefix) + 1, Len(source.str))
              parts == ReMatch(body)
          IN  \/ ~parts.matched
              \/ parts.consumed # Len(body)
              \/ Matches(hdulist, parts.name,
                         IF parts.ver # <<>> THEN ParseInt(parts.ver) ELSE NoVer) = {}

\* C6: get_block of a source that does not resolve fails; it returns no
\* block.
C6_UnresolvableFails ==
    (last.op = "get_block" /\ Unresolvable(last.src)) => ~last.ok

\* C7: get_source of a block that wraps a section no longer in the host
\* container fails with the error "removed", returns no identifier, and
\* leaves the host container and the document as they were.
C7_RemovedSectionFails ==
    [][(/\ last'.op = "get_source"
        /\ last'.blk.kind = "fits"
        /\ last'.blk.hdu \notin HostIds(hdulist))
           => /\ ~last'.ok
              /\ last'.err = "ValueError: FITS block seems to have been removed"
              /\ last'.source = NoSource
              /\ UNCHANGED <<hdulist, blocks, disk>>]_vars

C7_Witness ==
    /\ last.op = "get_source"
    /\ last.blk.kind = "fits"
    /\ last.blk.hdu \notin HostIds(hdulist)
    /\ ~last.ok

\* C8: an update or write_to whose serialization fails leaves the host
\* container exactly as it was.
C8_FailedWriteLeavesHost ==
    [][(/\ last'.op \in {"update", "write_to"}
        /\ ~last'.ok
        /\ last'.err # "IOError")
           => hdulist' = hdulist]_vars

C8_Witness ==
    /\ last.op \in {"update", "write_to"}
    /\ last.err = "CodecError"
    /\ AsdfSections(hdulist) # {}

\* C9: write_to_stream fails with the unsupported-operation error whatever
\* the state and the argument, and changes neither the host container nor
\* the internal blocks nor the file.
C9_StreamUnsupported ==
    [][last'.op = "write_to_stream"
           => /\ ~last'.ok
              /\ last'.err = "NotImplementedError"
              /\ UNCHANGED <<hdulist, blocks, disk>>]_vars

C9_Witness ==
    /\ last.op = "write_to_stream"
    /\ ~last.ok
    /\ disk.exists
    /\ blocks # <<>>

\* The host after the new data array replaced the data of section i.
Replaced(hl, i, payload) == [hl EXCEPT ![i].data = [id |-> 0, bytes |-> payload]]

\* C10: a successful update appends the section ASDF, holding the payload,
\* when the host has none, and otherwise replaces the data of that section
\* and nothing else; a host with at most one section ASDF has exactly one
\* after it, holding the payload of that update.
C10_UpdateChangesOnlyAsdf ==
    [][(last'.op = "update" /\ last'.ok)
          => /\ IF AsdfSections(hdulist) = {}
                THEN /\ Len(hdulist') = Len(hdulist) + 1
                     /\ SubSeq(hdulist', 1, Len(hdulist)) = hdulist
                     /\ hdulist'[Len(hdulist')].name = ASDF_EXTENSION_NAME
                     /\ hdulist'[Len(hdulist')].data.bytes = last'.payload
                ELSE hdulist' = Replaced(hdulist, Min(AsdfSections(hdulist)), last'.payload)
             /\ Cardinality(AsdfSections(hdulist)) <= 1
                   => /\ Cardinality(AsdfSections(hdulist')) = 1
                      /\ \A i \in AsdfSections(hdulist') :
                            hdulist'[i].data.bytes = last'.payload]_vars

C10_Witness ==
    /\ last.op = "update" /\ last.ok
    /\ Cardinality(AsdfSections(hdulist)) = 1
    /\ Len(hdulist) > 1
    /\ last.payload.tree # <<>>
    /\ \A i \in AsdfSections(hdulist) : hdulist[i].data.bytes = last.payload

====
